---- MODULE Spec2Model ----
(***************************************************************************)
(* Afore holdings pipeline: extraction of holding records from the Siefore *)
(* report sheets (cleanup_afore_json.py) and their enrichment with USD     *)
(* values (enrich_with_usd.py).                                            *)
(*                                                                         *)
(* Text is modelled as a sequence of one-character strings, so that strip, *)
(* split, replace, membership and parsing are computed character by        *)
(* character as the Python code computes them.                             *)
(***************************************************************************)
EXTENDS Integers, Sequences, FiniteSets, TLC

VARIABLES
    build,                              \* which range of years the installed pandas represents
    col, date,                          \* one column header and its resolved date
    val, value_mxn,                     \* one cell and its normalized amount
    afore_data, fx_data, epc,           \* enrichment: the two input files, position in run()
    merged_df, enriched_out,            \* enrichment: the frame in memory, the output file
    files, pc, report_idx,              \* rebuild: the report files, position in main()
    all_dataframes, file_summary,       \* rebuild: the accumulators of main()
    out_json, out_summary,              \* rebuild: the two output files
    ppc, reported,                      \* pipeline: position in run(), what each stage returned
    skip_rebuild, skip_fx, force_fx,    \* pipeline: the command-line options
    fx_age,                             \* rate fetch: hours since the rate file was written
    requests, response, fx_df           \* rate fetch: requests sent, the answer, the frame in memory

dateVars == <<col, date>>
valueVars == <<val, value_mxn>>
enrichVars == <<afore_data, fx_data, epc, merged_df, enriched_out>>
mainVars == <<files, pc, report_idx, all_dataframes, file_summary, out_json, out_summary>>
pipeVars == <<ppc, reported, skip_rebuild, skip_fx, force_fx, fx_age, requests, response, fx_df>>
vars == <<build, col, date, val, value_mxn, afore_data, fx_data, epc, merged_df, enriched_out,
          files, pc, report_idx, all_dataframes, file_summary, out_json, out_summary,
          ppc, reported, skip_rebuild, skip_fx, force_fx, fx_age, requests, response, fx_df>>

\* no pipeline run and no rate fetch is going on
PipeIdle ==
    /\ ppc = "idle" /\ reported = <<>>
    /\ skip_rebuild = FALSE /\ skip_fx = FALSE /\ force_fx = FALSE
    /\ fx_age = 0 /\ requests = 0 /\ response = "none" /\ fx_df = <<>>

\* --------------------------------------------------------------------------
\* Text helpers (Python str operations)
\* --------------------------------------------------------------------------
Digits == <<"0","1","2","3","4","5","6","7","8","9">>
UpperLetters == <<"A","B","C","D","E","F","G","H","I","J","K","L","M","N","O","P","Q","R","S","T","U","V","W","X","Y","Z">>
LowerLetters == <<"a","b","c","d","e","f","g","h","i","j","k","l","m","n","o","p","q","r","s","t","u","v","w","x","y","z">>

IndexOf(c, seq) ==
    IF \E i \in 1..Len(seq) : seq[i] = c
    THEN CHOOSE i \in 1..Len(seq) : seq[i] = c
    ELSE 0

IsDigit(c) == IndexOf(c, Digits) # 0
DigitVal(c) == IndexOf(c, Digits) - 1
IsSpace(c) == c \in {" ", "\t", "\n"}

AllDigits(s) == Len(s) > 0 /\ \A i \in 1..Len(s) : IsDigit(s[i])

RECURSIVE ToNat(_)
ToNat(s) == IF s = <<>> THEN 0 ELSE 10 * ToNat(SubSeq(s, 1, Len(s) - 1)) + DigitVal(s[Len(s)])

\* str.lower() on the ASCII letters
LowerChar(c) == IF IndexOf(c, UpperLetters) # 0 THEN LowerLetters[IndexOf(c, UpperLetters)] ELSE c
Lower(s) == [i \in 1..Len(s) |-> LowerChar(s[i])]

RECURSIVE LStrip(_)
LStrip(s) == IF s # <<>> /\ IsSpace(Head(s)) THEN LStrip(Tail(s)) ELSE s
RECURSIVE RStrip(_)
RStrip(s) == IF s # <<>> /\ IsSpace(s[Len(s)]) THEN RStrip(SubSeq(s, 1, Len(s) - 1)) ELSE s
\* str.strip()
Strip(s) == RStrip(LStrip(s))

\* str.replace(c, "")
RECURSIVE Remove(_, _)
Remove(s, c) ==
    IF s = <<>> THEN <<>>
    ELSE IF Head(s) = c THEN Remove(Tail(s), c)
    ELSE <<Head(s)>> \o Remove(Tail(s), c)

\* str.split(sep) for a one-character separator
RECURSIVE SplitAcc(_, _, _)
SplitAcc(s, sep, cur) ==
    IF s = <<>> THEN <<cur>>
    ELSE IF Head(s) = sep THEN <<cur>> \o SplitAcc(Tail(s), sep, <<>>)
    ELSE SplitAcc(Tail(s), sep, Append(cur, Head(s)))
Split(s, sep) == SplitAcc(s, sep, <<>>)

\* `c in s` for a one-character c
HasChar(s, c) == \E i \in 1..Len(s) : s[i] = c

\* `pat in s` / a literal regex search: pat occurs as a contiguous substring of s
Contains(s, pat) ==
    \E i \in 0..(Len(s) - Len(pat)) : SubSeq(s, i + 1, i + Len(pat)) = pat

\* str(n).zfill(2) for a natural number n < 100
ZFill2(n) == <<Digits[(n \div 10) + 1], Digits[(n % 10) + 1]>>

\* --------------------------------------------------------------------------
\* Date resolution (extract_siefore_data, lines 120-142)
\* --------------------------------------------------------------------------
NaT == [kind |-> "NaT", year |-> 0, month |-> 0, via |-> "generic"]
Raised(v) == [kind |-> "raise", year |-> 0, month |-> 0, via |-> v]
DateOf(y, m, v) == [kind |-> "date", year |-> y, month |-> m, via |-> v]

\* the keys of spanish_months in table order; the value of key i is ZFill2(i)
spanish_months == << <<"E","n","e">>, <<"F","e","b">>, <<"M","a","r">>, <<"A","b","r">>, <<"M","a","y">>, <<"J","u","n">>,
                     <<"J","u","l">>, <<"A","g","o">>, <<"S","e","p">>, <<"O","c","t">>, <<"N","o","v">>, <<"D","i","c">> >>

\* years every pandas build represents at nanosecond resolution (Timestamp.min is in
\* 1677, Timestamp.max in 2262); outside them the build decides, and year 0 is no
\* datetime year at all
NanosecondYears == 1678..2261

\* the fields of an ISO date text YYYY-MM-DD, optionally followed by " 00:00:00"
IsoFields(s) ==
    LET body == IF Len(s) = 19 /\ SubSeq(s, 11, 19) = <<" ","0","0",":","0","0",":","0","0">> THEN SubSeq(s, 1, 10) ELSE s
        p == Split(body, "-")
    IN  IF /\ Len(p) \in {2, 3}
           /\ Len(p[1]) = 4 /\ AllDigits(p[1])
           /\ Len(p[2]) = 2 /\ AllDigits(p[2]) /\ ToNat(p[2]) \in 1..12
           /\ (Len(p) = 3 => Len(p[3]) = 2 /\ AllDigits(p[3]) /\ ToNat(p[3]) \in 1..28)
        THEN <<ToNat(p[1]), ToNat(p[2])>>
        ELSE <<>>

\* The installed pandas decides which years outside NanosecondYears a timestamp
\* holds: "ns" none, "mixed" only those built by pd.Timestamp, "wide" all of them.
Builds == {"ns", "mixed", "wide"}
WideTimestamp(b) == b \in {"mixed", "wide"}
WideToDatetime(b) == b = "wide"

\* pd.Timestamp(text): the timestamp, or the exception it raises for a text that
\* is no date or a year it cannot hold
Timestamp(s, v, b) ==
    LET f == IsoFields(s)
    IN  IF f = <<>> \/ f[1] = 0 THEN Raised(v)
        ELSE IF f[1] \in NanosecondYears \/ WideTimestamp(b) THEN DateOf(f[1], f[2], v)
        ELSE Raised(v)

\* a numeric date NN/NN/YYYY read month first, as the parser does when dayfirst is
\* not given; the fields are swapped when only the day-first reading is a date
SlashFields(s) ==
    LET p == Split(s, "/")
    IN  IF /\ Len(p) = 3
           /\ Len(p[1]) = 2 /\ AllDigits(p[1])
           /\ Len(p[2]) = 2 /\ AllDigits(p[2])
           /\ Len(p[3]) = 4 /\ AllDigits(p[3])
        THEN LET a == ToNat(p[1])
                 b == ToNat(p[2])
             IN  IF a \in 1..12 /\ b \in 1..28 THEN <<ToNat(p[3]), a>>
                 ELSE IF b \in 1..12 /\ a \in 1..28 THEN <<ToNat(p[3]), b>>
                 ELSE <<>>
        ELSE <<>>

\* pd.to_datetime(text, errors="coerce"): a date, or NaT for what it cannot parse
ToDatetime(s, b) ==
    LET f == IF IsoFields(s) # <<>> THEN IsoFields(s) ELSE SlashFields(s)
    IN  IF f = <<>> \/ f[1] = 0 THEN NaT
        ELSE IF f[1] \in NanosecondYears \/ WideToDatetime(b) THEN DateOf(f[1], f[2], "generic")
        ELSE NaT

\* lines 123-142: the date of a column header that is not a Timestamp object
\* (line 83 has turned every header into text)
ResolveDate(c, b) ==
    LET col_str == Strip(c)
        parts == Split(col_str, "-")
    IN  IF HasChar(col_str, "-") /\ Len(parts) = 2
        THEN IF IndexOf(parts[1], spanish_months) # 0 /\ Len(parts[2]) = 4
             THEN LET month == ZFill2(IndexOf(parts[1], spanish_months))
                      year == parts[2]
                  IN  Timestamp(year \o <<"-">> \o month \o <<"-","0","1">>, "table", b)
             ELSE ToDatetime(col_str, b)
        ELSE ToDatetime(col_str, b)

\* --------------------------------------------------------------------------
\* Value normalization (extract_siefore_data, lines 145-149)
\* --------------------------------------------------------------------------
\* amounts are rationals num/den in lowest terms, or one of the float specials
SetMin(S) == CHOOSE x \in S : \A y \in S : x <= y
SetMax(S) == CHOOSE x \in S : \A y \in S : x >= y
RECURSIVE GCD(_, _)
GCD(a, b) == IF b = 0 THEN a ELSE GCD(b, a % b)
Abs(n) == IF n < 0 THEN -n ELSE n
Ratio(n, d) ==
    LET g == GCD(Abs(n), Abs(d))
        s == IF d < 0 THEN -1 ELSE 1
    IN  [kind |-> "num", num |-> s * (n \div g), den |-> s * (d \div g)]
NaN == [kind |-> "nan", num |-> 0, den |-> 1]
Inf(sign) == [kind |-> "inf", num |-> sign, den |-> 1]
ParseError == [kind |-> "error", num |-> 0, den |-> 1]

RECURSIVE Pow10(_)
Pow10(k) == IF k = 0 THEN 1 ELSE 10 * Pow10(k - 1)

\* the decimal number a text denotes (optional sign, digits, at most one point),
\* as an exact fraction; any other text is an error
DecimalValue(s) ==
    LET signed == s # <<>> /\ Head(s) \in {"+", "-"}
        sign == IF signed /\ Head(s) = "-" THEN -1 ELSE 1
        body == IF signed THEN Tail(s) ELSE s
        p == Split(body, ".")
        ip == p[1]
        fp == IF Len(p) = 2 THEN p[2] ELSE <<>>
    IN  IF /\ Len(p) \in {1, 2}
           /\ Len(ip) + Len(fp) > 0
           /\ \A i \in 1..Len(ip) : IsDigit(ip[i])
           /\ \A i \in 1..Len(fp) : IsDigit(fp[i])
        THEN Ratio(sign * ToNat(ip \o fp), Pow10(Len(fp)))
        ELSE ParseError

\* Python floats are IEEE doubles: a sign, a significand of at most 53 binary
\* digits (least significant first here) and a power of two.  The arithmetic
\* on them is carried out on digits of base 2^15, least significant first.
RECURSIVE Pow2(_)
Pow2(k) == IF k = 0 THEN 1 ELSE 2 * Pow2(k - 1)
RECURSIVE Log2(_)
Log2(n) == IF n <= 1 THEN 0 ELSE 1 + Log2(n \div 2)
BitsOf(n) == IF n = 0 THEN <<>> ELSE [i \in 1..(Log2(n) + 1) |-> (n \div Pow2(i - 1)) % 2]
RECURSIVE NatOf(_)
NatOf(b) == IF b = <<>> THEN 0 ELSE Head(b) + 2 * NatOf(Tail(b))
LowZeros(b) == IF \A i \in 1..Len(b) : b[i] = 0 THEN Len(b)
               ELSE SetMin({i \in 1..Len(b) : b[i] = 1}) - 1
Trim(b) == IF \A i \in 1..Len(b) : b[i] = 0 THEN <<>>
           ELSE SubSeq(b, 1, SetMax({i \in 1..Len(b) : b[i] = 1}))
Inc(b) ==
    LET z == SetMin({i \in 1..Len(b) : b[i] = 0} \cup {Len(b) + 1})
    IN  [i \in 1..(IF z > Len(b) THEN z ELSE Len(b)) |->
            IF i < z THEN 0 ELSE IF i = z THEN 1 ELSE b[i]]
LimbsOf(b) ==
    [k \in 1..((Len(b) + 14) \div 15) |->
        NatOf(SubSeq(b, 15 * (k - 1) + 1, IF 15 * k < Len(b) THEN 15 * k ELSE Len(b)))]
BitsOfLimbs(l) ==
    Trim([j \in 1..(15 * Len(l)) |-> (l[(j - 1) \div 15 + 1] \div Pow2((j - 1) % 15)) % 2])

\* long division of the number l by a small d, from the top digit down
RECURSIVE DivAcc(_, _, _, _, _)
DivAcc(l, i, d, r, q) ==
    IF i = 0 THEN [q |-> q, r |-> r]
    ELSE LET x == r * 32768 + l[i]
         IN  DivAcc(l, i - 1, d, x % d, <<x \div d>> \o q)

\* the number l times a small c
RECURSIVE MulAcc(_, _, _)
MulAcc(l, c, carry) ==
    IF l = <<>> THEN IF carry = 0 THEN <<>> ELSE <<carry>>
    ELSE LET x == Head(l) * c + carry
         IN  <<x % 32768>> \o MulAcc(Tail(l), c, x \div 32768)

\* round to nearest, ties to even, to 53 binary digits; inexact tells that
\* digits below those of b were already lost
Round53(b, inexact) ==
    LET L == Len(b)
        t == L - 53
    IN  IF t <= 0 THEN [mant |-> b, shift |-> 0]
        ELSE LET kept == SubSeq(b, t + 1, L)
                 sticky == inexact \/ \E i \in 1..(t - 1) : b[i] = 1
                 up == b[t] = 1 /\ (sticky \/ kept[1] = 1)
             IN  [mant |-> IF up THEN Inc(kept) ELSE kept, shift |-> t]

\* the float sign * mant * 2^exp: a fraction where its terms fit a machine
\* integer of the model, the binary digits otherwise
Double(sign, mant, exp) ==
    LET z == LowZeros(mant)
        m == SubSeq(mant, z + 1, Len(mant))
        e == exp + z
    IN  IF m = <<>> THEN Ratio(0, 1)
        ELSE IF e >= 0 /\ Len(m) + e <= 30 THEN Ratio(sign * NatOf(m) * Pow2(e), 1)
        ELSE IF e < 0 /\ -e <= 30 /\ Len(m) <= 30 THEN Ratio(sign * NatOf(m), Pow2(-e))
        ELSE [kind |-> "double", num |-> sign, den |-> 1, mant |-> m, exp |-> e]

Sign(x) == IF x.num < 0 THEN -1 ELSE 1
Mant(x) == IF x.kind = "double" THEN x.mant ELSE BitsOf(Abs(x.num))
Exp(x) == IF x.kind = "double" THEN x.exp ELSE -Log2(x.den)

\* the double nearest to the fraction n/d (d below 2^16): n * 2^90 is six
\* zero digits below the digits of n
NearestDouble(n, d) ==
    LET l == <<0, 0, 0, 0, 0, 0>> \o LimbsOf(BitsOf(Abs(n)))
        dv == DivAcc(l, Len(l), d, 0, <<>>)
        r == Round53(BitsOfLimbs(dv.q), dv.r # 0)
    IN  IF n = 0 THEN Ratio(0, 1)
        ELSE Double(IF n < 0 THEN -1 ELSE 1, r.mant, r.shift - 90)

\* float(text) for plain decimal notation and the special names, which float()
\* accepts in any letter case; anything else is a ValueError
ParseFloat(s) ==
    LET t == Strip(s)
        signed == t # <<>> /\ Head(t) \in {"+", "-"}
        sign == IF signed /\ Head(t) = "-" THEN -1 ELSE 1
        body == IF signed THEN Tail(t) ELSE t
        x == DecimalValue(t)
    IN  IF Lower(body) = <<"n","a","n">> THEN NaN
        ELSE IF Lower(body) \in {<<"i","n","f">>, <<"i","n","f","i","n","i","t","y">>} THEN Inf(sign)
        ELSE IF x.kind = "num" THEN NearestDouble(x.num, x.den)
        ELSE ParseError

\* x * 1000 on floats
Times1000(x) ==
    IF x.kind \in {"num", "double"}
    THEN LET r == Round53(BitsOfLimbs(MulAcc(LimbsOf(Mant(x)), 1000, 0)), FALSE)
         IN  Double(Sign(x), r.mant, Exp(x) + r.shift)
    ELSE x

\* the list of line 147
Placeholders == {<<"N","/","A">>, <<"-">>, <<>>, <<"n","a","n">>, <<"N","o","n","e">>}

\* lines 145-149: the amount of a cell given as str(val)
NormalizeValue(v) ==
    LET val_str == Strip(Remove(v, ","))
    IN  IF val_str \in Placeholders THEN Ratio(0, 1)
        ELSE LET f == ParseFloat(val_str)
             IN  IF f.kind = "error" THEN Ratio(0, 1) ELSE Times1000(f)

\* --------------------------------------------------------------------------
\* Enrichment (enrich_with_usd.py)
\* --------------------------------------------------------------------------
\* a path at which no file exists, and a file holding a list of records
NoFile == [exists |-> FALSE, data |-> <<>>]
FileOf(d) == [exists |-> TRUE, data |-> d]
\* a missing value: NaN in a frame, null in JSON
Null == [kind |-> "null", num |-> 0, den |-> 1]

\* the text of a JSON file whose records carry every key is a sequence of records;
\* a frame built from an empty list has no columns at all
MissingColumns(data) == data = <<>>

\* load_data, lines 51-79: "ok", or the exception raised
LoadDataResult(afore, fx) ==
    IF ~afore.exists THEN "FileNotFoundError"
    ELSE IF ~fx.exists THEN "FileNotFoundError"
    ELSE IF MissingColumns(afore.data) THEN "ValueError"
    ELSE IF MissingColumns(fx.data) THEN "ValueError"
    ELSE "ok"

SamePeriod(a, b) == a.PeriodYear = b.PeriodYear /\ a.PeriodMonth = b.PeriodMonth

WithRate(h, rate) ==
    [Afore |-> h.Afore, Siefore |-> h.Siefore, Concept |-> h.Concept,
     PeriodYear |-> h.PeriodYear, PeriodMonth |-> h.PeriodMonth,
     valueMXN |-> h.valueMXN, FX_EOM |-> rate, valueUSD |-> Null]

\* the rows a left join gives for one left row: one per matching right row, in the
\* right frame's order, or a single row with a missing rate when none matches
RECURSIVE MatchesOf(_, _)
MatchesOf(h, fx) ==
    IF fx = <<>> THEN <<>>
    ELSE (IF SamePeriod(h, Head(fx)) THEN <<WithRate(h, Head(fx).FX_EOM)>> ELSE <<>>)
         \o MatchesOf(h, Tail(fx))

MergeRowInner(h, fx) == MatchesOf(h, fx)

MergeRow(h, fx) ==
    IF MatchesOf(h, fx) = <<>> THEN <<WithRate(h, Null)>> ELSE MatchesOf(h, fx)

\* afore_df.merge(fx_df, on=[PeriodYear, PeriodMonth], how="left"), lines 97-101
RECURSIVE LeftMerge(_, _)
LeftMerge(afore, fx) ==
    IF afore = <<>> THEN <<>>
    ELSE MergeRow(Head(afore), fx) \o LeftMerge(Tail(afore), fx)

\* float division on frame values: a missing operand gives a missing result
FloatDiv(x, y) ==
    IF x.kind # "num" \/ y.kind # "num" THEN Null
    ELSE IF y.num = 0 THEN (IF x.num = 0 THEN NaN ELSE Inf(IF x.num < 0 THEN -1 ELSE 1))
    ELSE Ratio(x.num * y.den, x.den * y.num)

UsdValueZeroFilled(r) == IF r.FX_EOM = Null THEN Ratio(0, 1) ELSE FloatDiv(r.valueMXN, r.FX_EOM)

\* line 133: valueUSD = valueMXN / FX_EOM
UsdValue(r) == FloatDiv(r.valueMXN, r.FX_EOM)

EnrichIdle ==
    /\ afore_data = NoFile /\ fx_data = NoFile /\ epc = "idle"
    /\ merged_df = <<>> /\ enriched_out = NoFile

\* run(), line 240
LoadData ==
    /\ epc = "start"
    /\ epc' = IF LoadDataResult(afore_data, fx_data) = "ok" THEN "loaded" ELSE "failed"
    /\ UNCHANGED <<afore_data, fx_data, merged_df, enriched_out>>
    /\ UNCHANGED <<build, dateVars, valueVars, mainVars, pipeVars>>

\* run(), line 243: merge_fx_data
MergeFxData ==
    /\ epc = "loaded"
    /\ merged_df' = LeftMerge(afore_data.data, fx_data.data)
    /\ epc' = "merged"
    /\ UNCHANGED <<afore_data, fx_data, enriched_out>>
    /\ UNCHANGED <<build, dateVars, valueVars, mainVars, pipeVars>>

\* run(), line 246: calculate_usd_values
CalculateUsdValues ==
    /\ epc = "merged"
    /\ merged_df' = [i \in 1..Len(merged_df) |->
                        [merged_df[i] EXCEPT !.valueUSD = UsdValue(merged_df[i])]]
    /\ epc' = "calculated"
    /\ UNCHANGED <<afore_data, fx_data, enriched_out>>
    /\ UNCHANGED <<build, dateVars, valueVars, mainVars, pipeVars>>

\* run(), lines 249-252: reorder_columns keeps every row; save_enriched_data writes them
SaveEnrichedData ==
    /\ epc = "calculated"
    /\ enriched_out' = FileOf(merged_df)
    /\ epc' = "saved"
    /\ UNCHANGED <<afore_data, fx_data, merged_df>>
    /\ UNCHANGED <<build, dateVars, valueVars, mainVars, pipeVars>>

\* --------------------------------------------------------------------------
\* Report extraction (cleanup_afore_json.py)
\* --------------------------------------------------------------------------
FIRST_VALUE_COL == 4
NUM_AFORES == 10

\* report numbers and their Siefore names, in the order of sorted(SIEFORE_MAP.items())
FirstReport == 16
SIEFORE_MAP == << "Pensiones", "Inicial", "55-59", "60-64", "65-69", "70-74",
                  "75-79", "80-84", "85-89", "90-94", "95-99" >>

CONCEPTS == << <<"T","o","t","a","l"," ","d","e"," ","A","c","t","i","v","o">>,
               <<"I","n","v","e","r","s","i","o","n","e","s"," ","T","e","r","c","e","r","i","z","a","d","a","s">>,
               <<"I","n","v","e","r","s","i","o","n"," ","e","n"," ","T","i","t","u","l","o","s"," ","F","i","d","u","c","i","a","r","i","o","s">>,
               <<"I","n","v","e","r","s","i","o","n"," ","e","n"," ","F","o","n","d","o","s"," ","M","u","t","u","o","s">> >>

\* lines 89-96
ConceptSearch(concept) ==
    IF Contains(concept, <<"F","i","d","u","c","i","a","r","i","o","s">>) THEN <<"F","i","d","u","c","i","a","r","i","o","s">>
    ELSE IF Contains(concept, <<"F","o","n","d","o","s"," ","M","u","t","u","o","s">>) THEN <<"F","o","n","d","o","s"," ","M","u","t","u","o","s">>
    ELSE IF Contains(concept, <<"T","e","r","c","e","r","i","z","a","d","a","s">>) THEN <<"T","e","r","c","e","r","i","z","a","d","a","s">>
    ELSE concept

\* A sheet as read by pd.read_excel: ncols columns; headers are the header texts of
\* the columns from FIRST_VALUE_COL on; each row has the label of column 1 (na when
\* the cell is empty) and str() of its cells under those headers.
Label(t) == [na |-> FALSE, text |-> t]
NoLabel == [na |-> TRUE, text |-> <<>>]
Row(l, c) == [label |-> l, cells |-> c]

\* astype(str) of a label: a missing label reads "nan"
LabelStr(l) == IF l.na THEN <<"n","a","n">> ELSE l.text
\* fillna("").str.strip() of a label
AforeName(l) == IF l.na THEN <<>> ELSE Strip(l.text)

\* line 98: the rows whose label contains the search term, letter case ignored
MatchingRows(sheet, search) ==
    {i \in 1..Len(sheet.rows) : Contains(Lower(LabelStr(sheet.rows[i].label)), Lower(search))}

ConceptRowLast(sheet, search) ==
    IF MatchingRows(sheet, search) = {} THEN 0 ELSE SetMax(MatchingRows(sheet, search))

\* line 104: concept_idx.index[0]; 0 when no row matches (line 100)
ConceptRow(sheet, search) ==
    IF MatchingRows(sheet, search) = {} THEN 0 ELSE SetMin(MatchingRows(sheet, search))

AforeBlockToEnd(sheet, r) == SubSeq(sheet.rows, r + 1, Len(sheet.rows))

\* line 105: the rows of the block under row r
AforeBlock(sheet, r) ==
    SubSeq(sheet.rows, r + 1, SetMin({r + NUM_AFORES, Len(sheet.rows)}))

\* line 110
SkippedAfore(afore) == afore = <<>> \/ afore = <<"n","a","n">>

\* str(n) for a natural number
RECURSIVE NatToStr(_)
NatToStr(n) == IF n < 10 THEN <<Digits[n + 1]>> ELSE NatToStr(n \div 10) \o <<Digits[(n % 10) + 1]>>

HoldingRecordSearchTerm(afore, siefore_name, concept, d, v) ==
    [Afore |-> afore, Siefore |-> siefore_name, Concept |-> ConceptSearch(concept),
     PeriodYear |-> NatToStr(d.year), PeriodMonth |-> ZFill2(d.month),
     valueMXN |-> NormalizeValue(v)]

\* lines 151-158
HoldingRecord(afore, siefore_name, concept, d, v) ==
    [Afore |-> afore, Siefore |-> siefore_name, Concept |-> concept,
     PeriodYear |-> NatToStr(d.year), PeriodMonth |-> ZFill2(d.month),
     valueMXN |-> NormalizeValue(v)]

RECURSIVE Flatten(_)
Flatten(ss) == IF ss = <<>> THEN <<>> ELSE Head(ss) \o Flatten(Tail(ss))

\* lines 115-158 for one cell: a record when the header resolves to a date
CellRecords(afore, siefore_name, concept, header, v, b) ==
    LET d == ResolveDate(header, b)
    IN  IF d.kind = "date" THEN <<HoldingRecord(afore, siefore_name, concept, d, v)>> ELSE <<>>

\* lines 109-158 for one row of the block
RowRecords(sheet, row, siefore_name, concept, b) ==
    LET afore == AforeName(row.label)
    IN  IF SkippedAfore(afore) THEN <<>>
        ELSE Flatten([j \in 1..Len(sheet.headers) |->
                        CellRecords(afore, siefore_name, concept, sheet.headers[j], row.cells[j], b)])

\* lines 86-158 for one concept
ConceptRecords(sheet, siefore_name, concept, b) ==
    LET r == ConceptRow(sheet, ConceptSearch(concept))
        block == AforeBlock(sheet, r)
    IN  IF r = 0 THEN <<>>
        ELSE Flatten([i \in 1..Len(block) |-> RowRecords(sheet, block[i], siefore_name, concept, b)])

RECURSIVE RecordsUntilMissing(_, _, _, _)
RecordsUntilMissing(sheet, siefore_name, k, b) ==
    IF k > Len(CONCEPTS) \/ ConceptRow(sheet, ConceptSearch(CONCEPTS[k])) = 0 THEN <<>>
    ELSE ConceptRecords(sheet, siefore_name, CONCEPTS[k], b)
            \o RecordsUntilMissing(sheet, siefore_name, k + 1, b)
ExtractRecordsUntilMissing(sheet, siefore_name, b) ==
    RecordsUntilMissing(sheet, siefore_name, 1, b)

\* the records of a sheet whose extraction raises nothing
ExtractRecords(sheet, siefore_name, b) ==
    Flatten([k \in 1..Len(CONCEPTS) |-> ConceptRecords(sheet, siefore_name, CONCEPTS[k], b)])

\* the exceptions nothing in extract_siefore_data catches: df.iloc[:, 1] on a sheet
\* with fewer than two columns (line 98), and pd.Timestamp on the header of a
\* column that is reached (line 138)
ExtractRaises(sheet, b) ==
    \/ sheet.ncols < 2
    \/ \E k \in 1..Len(CONCEPTS) :
          LET r == ConceptRow(sheet, ConceptSearch(CONCEPTS[k]))
              block == AforeBlock(sheet, r)
          IN  /\ r # 0
              /\ \E i \in 1..Len(block) : ~SkippedAfore(AforeName(block[i].label))
              /\ \E j \in 1..Len(sheet.headers) : ResolveDate(sheet.headers[j], b).kind = "raise"

\* a report file: absent, present but not readable as a workbook, or a sheet
Missing == [kind |-> "missing", sheet |-> <<>>]
Unreadable == [kind |-> "unreadable", sheet |-> <<>>]
SheetFile(sh) == [kind |-> "sheet", sheet |-> sh]

\* extract_siefore_data, lines 77-160, on a file that exists: the frame it returns
\* (the empty frame when the read fails, lines 79-81)
ExtractSieforeData(f, siefore_name, b) ==
    IF f.kind = "unreadable" THEN <<>> ELSE ExtractRecords(f.sheet, siefore_name, b)

\* --------------------------------------------------------------------------
\* Rate fetch (fetch_banxico_fx.py)
\* --------------------------------------------------------------------------
\* cache_hours as the pipeline passes it
CACHE_HOURS == 24

ShouldRefreshAtLimit(f, age) == ~f.exists \/ age >= CACHE_HOURS

\* should_refresh, lines 41-47
ShouldRefresh(f, age) == ~f.exists \/ age > CACHE_HOURS

IsLeap(y) == y % 4 = 0 /\ (y % 100 # 0 \/ y % 400 = 0)
DaysIn(y, m) ==
    IF m = 2 THEN (IF IsLeap(y) THEN 29 ELSE 28)
    ELSE IF m \in {4, 6, 9, 11} THEN 30 ELSE 31

\* pd.to_datetime(text, format="%d/%m/%Y", errors="coerce"), line 112: day, month
\* and year in this order; anything else is NaT
ParseFecha(s, b) ==
    LET p == Split(s, "/")
        bad == [ok |-> FALSE, year |-> 0, month |-> 0, day |-> 0]
    IN  IF /\ Len(p) = 3
           /\ Len(p[1]) \in {1, 2} /\ AllDigits(p[1])
           /\ Len(p[2]) \in {1, 2} /\ AllDigits(p[2])
           /\ Len(p[3]) = 4 /\ AllDigits(p[3])
        THEN LET d == ToNat(p[1])
                 m == ToNat(p[2])
                 y == ToNat(p[3])
             IN  IF /\ m \in 1..12 /\ d \in 1..DaysIn(y, m)
                    /\ (y \in NanosecondYears \/ (WideToDatetime(b) /\ y # 0))
                 THEN [ok |-> TRUE, year |-> y, month |-> m, day |-> d]
                 ELSE bad
        ELSE bad

\* pd.to_numeric(text, errors="coerce"), line 113: NaN for what is no number
ToNumeric(s) == IF ParseFloat(s).kind = "error" THEN NaN ELSE ParseFloat(s)

ZFillNone(s, width) == s

\* str.zfill(width) on the text of a natural number
RECURSIVE ZFill(_, _)
ZFill(s, width) == IF Len(s) >= width THEN s ELSE ZFill(<<"0">> \o s, width)

\* lines 112-123: the rows with a date and a number, with their period columns
RateRow(r, b) ==
    LET f == ParseFecha(r.fecha, b)
    IN  [ok |-> f.ok /\ ToNumeric(r.dato).kind # "nan",
         year |-> f.year, month |-> f.month, day |-> f.day,
         PeriodYear |-> NatToStr(f.year),
         PeriodMonth |-> ZFill(NatToStr(f.month), 2),
         FX_EOM |-> ToNumeric(r.dato)]
ValidRateRows(raw, b) ==
    SelectSeq([i \in 1..Len(raw) |-> RateRow(raw[i], b)], LAMBDA r : r.ok)

\* lines 126-127: the row of the latest date of each month
IsLastOfMonth(rows, i) ==
    \A j \in 1..Len(rows) :
        (rows[j].year = rows[i].year /\ rows[j].month = rows[i].month)
            => rows[j].day <= rows[i].day

\* the order of Python strings of digits
RECURSIVE StrLeq(_, _)
StrLeq(s, t) ==
    IF s = <<>> THEN TRUE
    ELSE IF t = <<>> THEN FALSE
    ELSE IF Head(s) = Head(t) THEN StrLeq(Tail(s), Tail(t))
    ELSE DigitVal(Head(s)) < DigitVal(Head(t))
PeriodLeq(a, b) ==
    IF a.PeriodYear = b.PeriodYear THEN StrLeq(a.PeriodMonth, b.PeriodMonth)
    ELSE StrLeq(a.PeriodYear, b.PeriodYear)

\* line 131: sort_values on the two period columns
RECURSIVE SortByPeriod(_)
SortByPeriod(S) ==
    IF S = {} THEN <<>>
    ELSE LET first == CHOOSE x \in S : \A y \in S : PeriodLeq(x, y)
         IN  <<first>> \o SortByPeriod(S \ {first})

\* process_data, lines 99-141
ProcessData(raw, b) ==
    LET rows == ValidRateRows(raw, b)
    IN  SortByPeriod({[PeriodYear |-> rows[i].PeriodYear,
                       PeriodMonth |-> rows[i].PeriodMonth,
                       FX_EOM |-> rows[i].FX_EOM] :
                          i \in {i \in 1..Len(rows) : IsLastOfMonth(rows, i)}})

\* validate_data, lines 143-182: the rates lie between 1 and 30 (the comparisons
\* of an empty frame's NaN minimum are false), no period occurs twice
ValidateData(df) ==
    /\ \A i \in 1..Len(df) :
          /\ df[i].FX_EOM.kind = "num"
          /\ df[i].FX_EOM.num >= df[i].FX_EOM.den
          /\ df[i].FX_EOM.num <= 30 * df[i].FX_EOM.den
    /\ \A i \in 1..Len(df), j \in 1..Len(df) : (i # j) => ~SamePeriod(df[i], df[j])

\* the series of an answer: dates as DD/MM/YYYY, rates as text ("N/E" where the
\* bank has none); the dates of a series are distinct
Dato(fecha, dato) == [fecha |-> fecha, dato |-> dato]
SeriesTwoMonths ==
    << Dato(<<"0","2","/","0","1","/","2","0","2","5">>, <<"1","6",".","5">>), Dato(<<"3","1","/","0","1","/","2","0","2","5">>, <<"2","0",".","5">>),
       Dato(<<"2","8","/","0","2","/","2","0","2","5">>, <<"1","7">>) >>
SeriesUnordered ==
    << Dato(<<"3","1","/","1","2","/","2","0","2","4">>, <<"N","/","E">>), Dato(<<"3","0","/","1","2","/","2","0","2","4">>, <<"1","7",".","2","5">>),
       Dato(<<"2","/","1","2","/","2","0","2","4">>, <<"1","6",".","5">>), Dato(<<"0","1","/","0","2","/","2","0","2","5">>, <<"N","/","E">>) >>
SeriesOutOfRange == << Dato(<<"3","1","/","0","1","/","2","0","2","5">>, <<"3","5">>) >>
SeriesBelowRange == << Dato(<<"3","1","/","0","1","/","2","0","2","5">>, <<"1","7">>), Dato(<<"2","8","/","0","2","/","2","0","2","5">>, <<"0",".","5">>) >>
SeriesNoValidRow == << Dato(<<"2","0","2","5","-","0","1","-","3","1">>, <<"2","0",".","5">>), Dato(<<"3","0","/","0","2","/","2","0","2","5">>, <<"1","7">>) >>
Series == {SeriesTwoMonths, SeriesUnordered, SeriesOutOfRange, SeriesBelowRange,
           SeriesNoValidRow}



\* --------------------------------------------------------------------------
\* One header, one cell
\* --------------------------------------------------------------------------
Unresolved == [kind |-> "none", year |-> 0, month |-> 0, via |-> "none"]
Unset == [kind |-> "none", num |-> 0, den |-> 1]

DateIdle == col = <<>> /\ date = Unresolved
ValueIdle == val = <<>> /\ value_mxn = Unset

\* lines 120-142 for the header col
ResolveDateStep ==
    /\ date = Unresolved
    /\ date' = ResolveDate(col, build)
    /\ UNCHANGED <<build, col>>
    /\ UNCHANGED <<valueVars, enrichVars, mainVars, pipeVars>>

\* lines 145-149 for the cell val
NormalizeValueStep ==
    /\ value_mxn = Unset
    /\ value_mxn' = NormalizeValue(val)
    /\ UNCHANGED <<build, val>>
    /\ UNCHANGED <<dateVars, enrichVars, mainVars, pipeVars>>

\* --------------------------------------------------------------------------
\* Inputs
\* --------------------------------------------------------------------------
TableMonths == {spanish_months[i] : i \in 1..Len(spanish_months)}
OtherMonths == {<<"e","n","e">>, <<"E","N","E">>, <<"X","y","z">>, <<"E","n","e"," ">>}
FourCharYears == {<<"2","0","2","5">>, <<"1","9","9","9">>, <<"0","0","0","0">>, <<"1","5","0","0">>, <<"2","0","x","5">>, <<"a","b","c","d">>}
OtherYears == {<<"2","5">>, <<"2","0","2","5","5">>, <<>>}

Headers ==
    {m \o <<"-">> \o y : m \in TableMonths, y \in FourCharYears}
    \cup {m \o <<"-">> \o y : m \in OtherMonths, y \in FourCharYears}
    \cup {m \o <<"-">> \o y : m \in {<<"E","n","e">>, <<"A","g","o">>, <<"D","i","c">>}, y \in OtherYears}
    \cup {<<" ">> \o m \o <<"-">> \o y \o <<" ">> : m \in {<<"E","n","e">>, <<"D","i","c">>}, y \in FourCharYears}
    \cup { <<"2","0","2","5","-","0","8">>, <<"1","5","0","0","-","0","8">>, <<"2","0","2","4","-","0","8","-","0","1"," ","0","0",":","0","0",":","0","0">>, <<"2","0","2","4","-","1","3","-","0","1">>,
           <<"0","1","/","0","2","/","2","0","2","4">>, <<"1","3","/","0","2","/","2","0","2","4">>, <<"0","2","/","1","3","/","2","0","2","4">>, <<"3","1","/","3","1","/","2","0","2","4">>,
           <<"U","n","n","a","m","e","d",":"," ","5">>, <<"T","o","t","a","l">>, <<>>, <<"-">>, <<"E","n","e","-","2","0","2","5","-","0","1">> }

PlaceholderTokens == { <<"N","/","A">>, <<"n","/","a">>, <<"N","/","a">>, <<"-">>, <<>>,
                       <<"n","a","n">>, <<"N","a","N">>, <<"N","A","N">>, <<"N","o","n","e">>, <<"N","O","N","E">>, <<"n","o","n","e">> }
NumberTexts == { <<"1",",","2","3","4",".","5">>, <<"0">>, <<"-","5">>, <<"7",".","2","5">>, <<"+","1","2">>, <<".","5">>, <<"5",".">>, <<"1",",","0","0","0">>,
                 <<"a","b","c">>, <<"1",".","2",".","3">>, <<"-","-">>, <<".">>, <<"i","n","f">>, <<"-","I","n","f","i","n","i","t","y">>, <<"1","2"," ","3">>,
                 <<"1",".","1">>, <<"2",".","0","1">>, <<"-","2",".","0","3">>, <<"1",".","0","0","5">> }
Cells ==
    PlaceholderTokens \cup NumberTexts
    \cup {<<" ">> \o t : t \in PlaceholderTokens \cup NumberTexts}
    \cup {t \o <<" ">> : t \in PlaceholderTokens \cup NumberTexts}
    \cup {<<" ">> \o t \o <<"\t">> : t \in PlaceholderTokens \cup NumberTexts}

\* sheets: the widths agree (the headers are those of the columns from
\* FIRST_VALUE_COL on, and every row has one cell under each)
SheetOf(ncols, headers, rows) == [ncols |-> ncols, headers |-> headers, rows |-> rows]
WellFormed(sh) ==
    /\ Len(sh.headers) = SetMax({sh.ncols - FIRST_VALUE_COL, 0})
    /\ \A i \in 1..Len(sh.rows) : Len(sh.rows[i].cells) = Len(sh.headers)

\* two concepts, a padded upper-case concept label, a blank label, a header that is
\* no date
SheetTwoConcepts ==
    SheetOf(6, << <<"E","n","e","-","2","0","2","5">>, <<"T","o","t","a","l">> >>,
      << Row(Label(<<"T","O","T","A","L"," ","D","E"," ","A","C","T","I","V","O"," ">>), << <<"n","a","n">>, <<"n","a","n">> >>),
         Row(Label(<<" ","A","z","t","e","c","a"," ">>), << <<"1",",","2","3","4",".","5">>, <<"9">> >>),
         Row(NoLabel, << <<"7">>, <<"9">> >>),
         Row(Label(<<"I","n","v","e","r","s","i","o","n","e","s"," ","T","e","r","c","e","r","i","z","a","d","a","s">>), << <<"N","/","A">>, <<"9">> >>),
         Row(Label(<<"X","X","I">>), << <<"-","5">>, <<"9">> >>) >>)

\* the same search term in two rows, a header that was a date object, a label
\* with damaged characters
SheetDuplicateLabel ==
    SheetOf(5, << <<"2","0","2","4","-","0","8","-","0","1"," ","0","0",":","0","0",":","0","0">> >>,
      << Row(Label(<<"I","n","v","e","r","s","i","?","n"," ","e","n"," ","F","o","n","d","o","s"," ","M","u","t","u","o","s">>), << <<"n","a","n">> >>),
         Row(Label(<<"S","u","r","a">>), << <<"1","0">> >>),
         Row(Label(<<"f","o","n","d","o","s"," ","m","u","t","u","o","s"," ","(","t","o","t","a","l",")">>), << <<"n","a","n">> >>),
         Row(Label(<<"I","n","b","u","r","s","a">>), << <<"N","A","N">> >>) >>)

\* no target concept at all
SheetNoConcepts ==
    SheetOf(5, << <<"F","e","b","-","2","0","2","4">> >>,
      << Row(Label(<<"A","c","t","i","v","o"," ","N","e","t","o">>), << <<"1">> >>),
         Row(Label(<<"A","z","t","e","c","a">>), << <<"2">> >>) >>)

\* a single column: there is no label column
SheetOneColumn ==
    SheetOf(1, << >>, << Row(NoLabel, << >>), Row(NoLabel, << >>) >>)

\* a month of the table followed by four characters that are no year
SheetBadYearHeader ==
    SheetOf(6, << <<"D","i","c","-","2","0","2","4">>, <<"E","n","e","-","2","0","x","5">> >>,
      << Row(Label(<<"T","o","t","a","l"," ","d","e"," ","A","c","t","i","v","o">>), << <<"n","a","n">>, <<"n","a","n">> >>),
         Row(Label(<<"A","z","t","e","c","a">>), << <<"3">>, <<"4">> >>) >>)

\* a concept with eleven rows under it, one of them labelled with a null marker,
\* then a concept with three entities at the end of the sheet; one header is a
\* month, the other is no date
SheetLongBlock ==
    SheetOf(6, << <<"A","g","o","-","2","0","2","5">>, <<"P","r","o","m","e","d","i","o">> >>,
      << Row(Label(<<"I","n","v","e","r","s","i","o","n"," ","e","n"," ","T","i","t","u","l","o","s"," ","F","i","d","u","c","i","a","r","i","o","s">>), << <<"n","a","n">>, <<"n","a","n">> >>),
         Row(Label(<<"A">>), << <<"1">>, <<"2">> >>),
         Row(Label(<<"B">>), << <<"1">>, <<"2">> >>),
         Row(Label(<<" ","n","a","n"," ">>), << <<"1">>, <<"2">> >>),
         Row(Label(<<"D">>), << <<"1">>, <<"2">> >>),
         Row(Label(<<"E">>), << <<"1">>, <<"2">> >>),
         Row(Label(<<"F">>), << <<"1">>, <<"2">> >>),
         Row(Label(<<"G">>), << <<"1">>, <<"2">> >>),
         Row(Label(<<"H">>), << <<"1">>, <<"2">> >>),
         Row(Label(<<"I">>), << <<"1">>, <<"2">> >>),
         Row(Label(<<"J">>), << <<"1">>, <<"2">> >>),
         Row(Label(<<"K">>), << <<"1">>, <<"2">> >>),
         Row(Label(<<"T","o","t","a","l"," ","d","e"," ","A","c","t","i","v","o">>), << <<"n","a","n">>, <<"n","a","n">> >>),
         Row(Label(<<" ","A","z","t","e","c","a">>), << <<"3">>, <<"4">> >>),
         Row(Label(<<"C","o","p","p","e","l"," ">>), << <<"5">>, <<"6">> >>),
         Row(Label(<<"S","u","r","a">>), << <<"7">>, <<"8">> >>) >>)

\* two month headers, the later month to the left; the last concept of the list
\* stands above the first, and the entities are not in alphabetical order
SheetTwoDates ==
    SheetOf(6, << <<"F","e","b","-","2","0","2","5">>, <<"E","n","e","-","2","0","2","5">> >>,
      << Row(Label(<<"I","n","v","e","r","s","i","o","n"," ","e","n"," ","F","o","n","d","o","s"," ","M","u","t","u","o","s">>), << <<"n","a","n">>, <<"n","a","n">> >>),
         Row(Label(<<"S","u","r","a">>), << <<"1">>, <<"2">> >>),
         Row(Label(<<"A","z","t","e","c","a">>), << <<"3">>, <<"4">> >>),
         Row(Label(<<"T","o","t","a","l"," ","d","e"," ","A","c","t","i","v","o">>), << <<"n","a","n">>, <<"n","a","n">> >>),
         Row(Label(<<"C","o","p","p","e","l">>), << <<"5">>, <<"6">> >>) >>)

Sheets == {sh \in {SheetTwoConcepts, SheetDuplicateLabel, SheetNoConcepts,
                   SheetOneColumn, SheetBadYearHeader, SheetLongBlock,
                   SheetTwoDates} : WellFormed(sh)}

ReportFiles == {Missing, Unreadable} \cup {SheetFile(sh) : sh \in Sheets}

\* holdings and rates of the enrichment
MaxHoldings == 2
MaxRates == 2

Periods == { << <<"2","0","2","4">>, <<"0","1">> >>, << <<"2","0","2","4">>, <<"0","2">> >> }
Holdings ==
    { [Afore |-> a, Siefore |-> "Pensiones", Concept |-> CONCEPTS[1],
       PeriodYear |-> p[1], PeriodMonth |-> p[2], valueMXN |-> v] :
        a \in {<<"A","z","t","e","c","a">>, <<"X","X","I">>}, p \in Periods, v \in {Ratio(3000, 1), Ratio(-1500, 1)} }
\* the rate series also covers a month in which there are no holdings
RatePeriods == Periods \cup { << <<"2","0","2","3">>, <<"1","2">> >> }
Rates ==
    { [PeriodYear |-> p[1], PeriodMonth |-> p[2], FX_EOM |-> r] :
        p \in RatePeriods, r \in {Ratio(17, 1), Ratio(81, 4)} }

SeqsUpTo(S, n) == UNION {[1..k -> S] : k \in 0..n}

\* --------------------------------------------------------------------------
\* main() of cleanup_afore_json.py
\* --------------------------------------------------------------------------
\* the number of entries of SIEFORE_MAP, taken in order, that a run walks through
NumReports == 3

ReportNumber(i) == FirstReport + i - 1

\* lines 179-184
NotFoundEntry(i) ==
    [Report_Number |-> ReportNumber(i), Siefore |-> SIEFORE_MAP[i],
     Status |-> "File Not Found", Records_Extracted |-> 0]

\* lines 193-198
SuccessEntry(i, n) ==
    [Report_Number |-> ReportNumber(i), Siefore |-> SIEFORE_MAP[i],
     Status |-> "Success", Records_Extracted |-> n]

InLoop == pc = "loop" /\ report_idx <= NumReports

\* line 188 for every existing file, Siefore and build: whether the call raises, and
\* the frame it returns otherwise
Extraction ==
    [f \in ReportFiles \ {Missing}, i \in 1..NumReports, b \in Builds |->
        IF f.kind = "sheet" /\ ExtractRaises(f.sheet, b)
        THEN [raised |-> TRUE, frame |-> <<>>]
        ELSE [raised |-> FALSE, frame |-> ExtractSieforeData(f, SIEFORE_MAP[i], b)]]

SkipMissingReportAborts ==
    /\ InLoop
    /\ files[report_idx].kind = "missing"
    /\ file_summary' = Append(file_summary, NotFoundEntry(report_idx))
    /\ pc' = "returned"
    /\ UNCHANGED <<build, files, report_idx, all_dataframes, out_json, out_summary>>
    /\ UNCHANGED <<dateVars, valueVars, enrichVars, pipeVars>>

\* lines 174-185: the report file does not exist
SkipMissingReport ==
    /\ InLoop
    /\ files[report_idx].kind = "missing"
    /\ file_summary' = Append(file_summary, NotFoundEntry(report_idx))
    /\ report_idx' = report_idx + 1
    /\ UNCHANGED <<build, files, pc, all_dataframes, out_json, out_summary>>
    /\ UNCHANGED <<dateVars, valueVars, enrichVars, pipeVars>>

ProcessReportPrepends ==
    /\ InLoop
    /\ files[report_idx].kind # "missing"
    /\ ~Extraction[files[report_idx], report_idx, build].raised
    /\ LET df_siefore == Extraction[files[report_idx], report_idx, build].frame
       IN  /\ all_dataframes' = <<df_siefore>> \o all_dataframes
           /\ file_summary' = Append(file_summary, SuccessEntry(report_idx, Len(df_siefore)))
    /\ report_idx' = report_idx + 1
    /\ UNCHANGED <<build, files, pc, out_json, out_summary>>
    /\ UNCHANGED <<dateVars, valueVars, enrichVars, pipeVars>>

\* lines 187-198: the file exists and extract_siefore_data returns a frame
ProcessReport ==
    /\ InLoop
    /\ files[report_idx].kind # "missing"
    /\ ~Extraction[files[report_idx], report_idx, build].raised
    /\ LET df_siefore == Extraction[files[report_idx], report_idx, build].frame
       IN  /\ all_dataframes' = Append(all_dataframes, df_siefore)
           /\ file_summary' = Append(file_summary, SuccessEntry(report_idx, Len(df_siefore)))
    /\ report_idx' = report_idx + 1
    /\ UNCHANGED <<build, files, pc, out_json, out_summary>>
    /\ UNCHANGED <<dateVars, valueVars, enrichVars, pipeVars>>

\* line 188: an exception raised inside extract_siefore_data after the sheet was
\* read leaves it and leaves main(), which has no handler
ExtractionRaises ==
    /\ InLoop
    /\ files[report_idx].kind # "missing"
    /\ Extraction[files[report_idx], report_idx, build].raised
    /\ pc' = "extract_raised"
    /\ UNCHANGED <<build, files, report_idx, all_dataframes, file_summary, out_json, out_summary>>
    /\ UNCHANGED <<dateVars, valueVars, enrichVars, pipeVars>>

\* lines 201-203: no file was found at all
ReturnNoData ==
    /\ pc = "loop" /\ report_idx > NumReports
    /\ all_dataframes = <<>>
    /\ pc' = "returned"
    /\ UNCHANGED <<build, files, report_idx, all_dataframes, file_summary, out_json, out_summary>>
    /\ UNCHANGED <<dateVars, valueVars, enrichVars, pipeVars>>

\* lines 209-220: concatenate, write the dataset, write the summary
SaveOutputs ==
    /\ pc = "loop" /\ report_idx > NumReports
    /\ all_dataframes # <<>>
    /\ out_json' = FileOf(Flatten(all_dataframes))
    /\ out_summary' = FileOf(file_summary)
    /\ pc' = "saved"
    /\ UNCHANGED <<build, files, report_idx, all_dataframes, file_summary>>
    /\ UNCHANGED <<dateVars, valueVars, enrichVars, pipeVars>>

\* lines 226-243: the statistics read the columns of the combined frame, which has
\* none when it has no record (KeyError at line 227)
FinalStatistics ==
    /\ pc = "saved"
    /\ pc' = IF out_json.data = <<>> THEN "stats_raised" ELSE "done"
    /\ UNCHANGED <<build, files, report_idx, all_dataframes, file_summary, out_json, out_summary>>
    /\ UNCHANGED <<dateVars, valueVars, enrichVars, pipeVars>>

\* The body of the loop, lines 174-198, applied to the reports in an arbitrary
\* order: report_idx counts the reports taken so far, and a report is taken once.
Taken(i) == \E k \in 1..Len(file_summary) : file_summary[k].Report_Number = ReportNumber(i)
Pending == {i \in 1..NumReports : ~Taken(i)}

\* lines 176-185 for any pending report
AnySkipMissingReport ==
    /\ InLoop
    /\ \E i \in Pending :
          /\ files[i].kind = "missing"
          /\ file_summary' = Append(file_summary, NotFoundEntry(i))
    /\ report_idx' = report_idx + 1
    /\ UNCHANGED <<build, files, pc, all_dataframes, out_json, out_summary>>
    /\ UNCHANGED <<dateVars, valueVars, enrichVars, pipeVars>>

AnyProcessReportKeepsRecords ==
    /\ InLoop
    /\ \E i \in Pending :
          /\ files[i].kind # "missing"
          /\ ~Extraction[files[i], i, build].raised
          /\ LET df_siefore == Flatten(all_dataframes) \o Extraction[files[i], i, build].frame
             IN  /\ all_dataframes' = Append(all_dataframes, df_siefore)
                 /\ file_summary' = Append(file_summary, SuccessEntry(i, Len(df_siefore)))
    /\ report_idx' = report_idx + 1
    /\ UNCHANGED <<build, files, pc, out_json, out_summary>>
    /\ UNCHANGED <<dateVars, valueVars, enrichVars, pipeVars>>

\* lines 187-198 for any pending report
AnyProcessReport ==
    /\ InLoop
    /\ \E i \in Pending :
          /\ files[i].kind # "missing"
          /\ ~Extraction[files[i], i, build].raised
          /\ LET df_siefore == Extraction[files[i], i, build].frame
             IN  /\ all_dataframes' = Append(all_dataframes, df_siefore)
                 /\ file_summary' = Append(file_summary, SuccessEntry(i, Len(df_siefore)))
    /\ report_idx' = report_idx + 1
    /\ UNCHANGED <<build, files, pc, out_json, out_summary>>
    /\ UNCHANGED <<dateVars, valueVars, enrichVars, pipeVars>>

\* line 188 raising for any pending report
AnyExtractionRaises ==
    /\ InLoop
    /\ \E i \in Pending :
          /\ files[i].kind # "missing"
          /\ Extraction[files[i], i, build].raised
    /\ pc' = "extract_raised"
    /\ UNCHANGED <<build, files, report_idx, all_dataframes, file_summary, out_json, out_summary>>
    /\ UNCHANGED <<dateVars, valueVars, enrichVars, pipeVars>>

MainIdle ==
    /\ files = <<>> /\ pc = "idle" /\ report_idx = 0
    /\ all_dataframes = <<>> /\ file_summary = <<>>
    /\ out_json = NoFile /\ out_summary = NoFile

\* --------------------------------------------------------------------------
\* Specifications
\* --------------------------------------------------------------------------
\* a rebuild run over the report files
Init ==
    /\ build \in Builds
    /\ files \in [1..NumReports -> ReportFiles]
    /\ pc = "loop" /\ report_idx = 1
    /\ all_dataframes = <<>> /\ file_summary = <<>>
    /\ out_json = NoFile /\ out_summary = NoFile
    /\ DateIdle /\ ValueIdle /\ EnrichIdle /\ PipeIdle

Next ==
    \/ SkipMissingReport
    \/ ProcessReport
    \/ ExtractionRaises
    \/ ReturnNoData
    \/ SaveOutputs
    \/ FinalStatistics

Spec == Init /\ [][Next]_vars

\* a rebuild run that takes the reports in any order
AnyOrderReports ==
    {Missing, Unreadable, SheetFile(SheetTwoConcepts), SheetFile(SheetTwoDates),
     SheetFile(SheetBadYearHeader)}

InitAnyOrder ==
    /\ build = "ns"
    /\ files \in [1..NumReports -> AnyOrderReports]
    /\ pc = "loop" /\ report_idx = 1
    /\ all_dataframes = <<>> /\ file_summary = <<>>
    /\ out_json = NoFile /\ out_summary = NoFile
    /\ DateIdle /\ ValueIdle /\ EnrichIdle /\ PipeIdle

NextAnyOrder ==
    \/ AnySkipMissingReport
    \/ AnyProcessReport
    \/ AnyExtractionRaises
    \/ ReturnNoData
    \/ SaveOutputs
    \/ FinalStatistics

SpecAnyOrder == InitAnyOrder /\ [][NextAnyOrder]_vars

\* the resolution of one column header
InitDate ==
    /\ build \in Builds
    /\ col \in Headers /\ date = Unresolved
    /\ ValueIdle /\ EnrichIdle /\ MainIdle /\ PipeIdle

NextDate == ResolveDateStep

SpecDate == InitDate /\ [][NextDate]_vars

\* the normalization of one cell
InitValue ==
    /\ build = "ns"
    /\ val \in Cells /\ value_mxn = Unset
    /\ DateIdle /\ EnrichIdle /\ MainIdle /\ PipeIdle

NextValue == NormalizeValueStep

SpecValue == InitValue /\ [][NextValue]_vars

\* an enrichment run over a holdings file and a rate file
InitEnrich ==
    /\ build = "ns"
    /\ afore_data \in {NoFile} \cup {FileOf(d) : d \in SeqsUpTo(Holdings, MaxHoldings)}
    /\ fx_data \in {NoFile} \cup {FileOf(d) : d \in SeqsUpTo(Rates, MaxRates)}
    /\ epc = "start" /\ merged_df = <<>> /\ enriched_out = NoFile
    /\ DateIdle /\ ValueIdle /\ MainIdle /\ PipeIdle

NextEnrich ==
    \/ LoadData
    \/ MergeFxData
    \/ CalculateUsdValues
    \/ SaveEnrichedData

SpecEnrich == InitEnrich /\ [][NextEnrich]_vars

\* --------------------------------------------------------------------------
\* Properties
\* --------------------------------------------------------------------------
UniquePeriods(fx) ==
    \A i, j \in 1..Len(fx) : i # j => ~SamePeriod(fx[i], fx[j])

HoldingFields(r) == <<r.Afore, r.Siefore, r.Concept, r.PeriodYear, r.PeriodMonth, r.valueMXN>>

Merged == epc \in {"merged", "calculated", "saved"}

C2_DuplicatePeriodsAreRejected ==
    (fx_data.exists /\ ~UniquePeriods(fx_data.data)) =>
        /\ ~Merged
        /\ ~enriched_out.exists

Failures == {"timeout", "connection_error", "http_401", "http_500", "invalid_json", "no_data"}

\* step1_rebuild_database, lines 63-68: the dataset exists and --skip-rebuild is given
Step1Skip ==
    /\ ppc = "step1"
    /\ skip_rebuild /\ out_json.exists
    /\ reported' = Append(reported, TRUE)
    /\ ppc' = "step2"
    /\ UNCHANGED <<skip_rebuild, skip_fx, force_fx, fx_age, requests, response, fx_df>>
    /\ UNCHANGED <<build, dateVars, valueVars, enrichVars, mainVars>>

\* step1_rebuild_database, lines 70-72: main() of cleanup_afore_json.py is entered
Step1Rebuild ==
    /\ ppc = "step1"
    /\ ~(skip_rebuild /\ out_json.exists)
    /\ pc' = "loop" /\ report_idx' = 1
    /\ all_dataframes' = <<>> /\ file_summary' = <<>>
    /\ ppc' = "rebuild"
    /\ UNCHANGED <<files, out_json, out_summary>>
    /\ UNCHANGED <<reported, skip_rebuild, skip_fx, force_fx, fx_age, requests, response, fx_df>>
    /\ UNCHANGED <<build, dateVars, valueVars, enrichVars>>

Step1ReturnGoesOn ==
    /\ ppc = "rebuild"
    /\ pc \in {"returned", "done", "extract_raised", "stats_raised"}
    /\ reported' = Append(reported, pc \in {"returned", "done"})
    /\ ppc' = "step2"
    /\ UNCHANGED <<skip_rebuild, skip_fx, force_fx, fx_age, requests, response, fx_df>>
    /\ UNCHANGED <<build, dateVars, valueVars, enrichVars, mainVars>>

\* step1_rebuild_database, lines 73-77, and run(), lines 162-166: True when main()
\* returned, False when it raised, and a failed stage ends the run
Step1Return ==
    /\ ppc = "rebuild"
    /\ pc \in {"returned", "done", "extract_raised", "stats_raised"}
    /\ reported' = Append(reported, pc \in {"returned", "done"})
    /\ ppc' = IF pc \in {"returned", "done"} THEN "step2" ELSE "exit1"
    /\ UNCHANGED <<skip_rebuild, skip_fx, force_fx, fx_age, requests, response, fx_df>>
    /\ UNCHANGED <<build, dateVars, valueVars, enrichVars, mainVars>>

SkipFx == skip_fx /\ fx_data.exists /\ ~force_fx

\* step2_fetch_fx_data, lines 83-88
Step2Skip ==
    /\ ppc = "step2"
    /\ SkipFx
    /\ reported' = Append(reported, TRUE)
    /\ ppc' = "step3"
    /\ UNCHANGED <<skip_rebuild, skip_fx, force_fx, fx_age, requests, response, fx_df>>
    /\ UNCHANGED <<build, dateVars, valueVars, enrichVars, mainVars>>

\* BanxicoFXAgent.run, lines 212-217: the rate file is young enough and is kept;
\* run() returns and the stage reports True
UseCachedRates ==
    /\ ppc = "step2"
    /\ ~SkipFx
    /\ ~force_fx /\ ~ShouldRefresh(fx_data, fx_age)
    /\ reported' = Append(reported, TRUE)
    /\ ppc' = "step3"
    /\ UNCHANGED <<skip_rebuild, skip_fx, force_fx, fx_age, requests, response, fx_df>>
    /\ UNCHANGED <<build, dateVars, valueVars, enrichVars, mainVars>>

FetchDataRetries ==
    /\ ppc = "step2"
    /\ ~SkipFx
    /\ force_fx \/ ShouldRefresh(fx_data, fx_age)
    /\ requests < 2
    /\ requests' = requests + 1
    /\ response' \in Failures
    /\ reported' = IF requests = 0 THEN reported ELSE Append(reported, FALSE)
    /\ ppc' = IF requests = 0 THEN "step2" ELSE "exit1"
    /\ UNCHANGED <<skip_rebuild, skip_fx, force_fx, fx_age, fx_df>>
    /\ UNCHANGED <<build, dateVars, valueVars, enrichVars, mainVars>>

\* fetch_data, lines 73-97, with an answer that makes it raise ValueError; run()
\* re-raises (lines 235-237), the stage catches it and reports False (lines 99-101)
FetchDataFails ==
    /\ ppc = "step2"
    /\ ~SkipFx
    /\ force_fx \/ ShouldRefresh(fx_data, fx_age)
    /\ requests' = requests + 1
    /\ response' \in Failures
    /\ reported' = Append(reported, FALSE)
    /\ ppc' = "exit1"
    /\ UNCHANGED <<skip_rebuild, skip_fx, force_fx, fx_age, fx_df>>
    /\ UNCHANGED <<build, dateVars, valueVars, enrichVars, mainVars>>

\* fetch_data, lines 73-97, with a series in the answer
FetchData ==
    /\ ppc = "step2"
    /\ ~SkipFx
    /\ force_fx \/ ShouldRefresh(fx_data, fx_age)
    /\ requests' = requests + 1
    /\ response' = "ok"
    /\ fx_df' \in Series
    /\ ppc' = "fetched"
    /\ UNCHANGED <<reported, skip_rebuild, skip_fx, force_fx, fx_age>>
    /\ UNCHANGED <<build, dateVars, valueVars, enrichVars, mainVars>>

\* run(), line 224
ProcessDataStep ==
    /\ ppc = "fetched"
    /\ fx_df' = ProcessData(fx_df, build)
    /\ ppc' = "processed"
    /\ UNCHANGED <<reported, skip_rebuild, skip_fx, force_fx, fx_age, requests, response>>
    /\ UNCHANGED <<build, dateVars, valueVars, enrichVars, mainVars>>

\* run(), line 227, when validate_data raises: nothing is written, the stage
\* reports False
ValidateDataFails ==
    /\ ppc = "processed"
    /\ ~ValidateData(fx_df)
    /\ reported' = Append(reported, FALSE)
    /\ ppc' = "exit1"
    /\ UNCHANGED <<skip_rebuild, skip_fx, force_fx, fx_age, requests, response, fx_df>>
    /\ UNCHANGED <<build, dateVars, valueVars, enrichVars, mainVars>>

SaveJsonUnchecked ==
    /\ ppc = "processed"
    /\ fx_data' = FileOf(fx_df)
    /\ fx_age' = 0
    /\ reported' = Append(reported, TRUE)
    /\ ppc' = "step3"
    /\ UNCHANGED <<skip_rebuild, skip_fx, force_fx, requests, response, fx_df>>
    /\ UNCHANGED <<afore_data, epc, merged_df, enriched_out>>
    /\ UNCHANGED <<build, dateVars, valueVars, mainVars>>

\* run(), lines 227-230: the frame is valid and save_json writes it; the stage
\* reports True
SaveJson ==
    /\ ppc = "processed"
    /\ ValidateData(fx_df)
    /\ fx_data' = FileOf(fx_df)
    /\ fx_age' = 0
    /\ reported' = Append(reported, TRUE)
    /\ ppc' = "step3"
    /\ UNCHANGED <<skip_rebuild, skip_fx, force_fx, requests, response, fx_df>>
    /\ UNCHANGED <<afore_data, epc, merged_df, enriched_out>>
    /\ UNCHANGED <<build, dateVars, valueVars, mainVars>>

\* step3_enrich_with_usd, lines 109-114: the agent is given the dataset and the
\* rate file of the pipeline, and its run() is entered
Step3Enrich ==
    /\ ppc = "step3"
    /\ afore_data' = out_json
    /\ epc' = "start" /\ merged_df' = <<>>
    /\ ppc' = "enrich"
    /\ UNCHANGED <<fx_data, enriched_out>>
    /\ UNCHANGED <<reported, skip_rebuild, skip_fx, force_fx, fx_age, requests, response, fx_df>>
    /\ UNCHANGED <<build, dateVars, valueVars, mainVars>>

\* step3_enrich_with_usd, lines 115-119, and run(), lines 162-166
Step3Return ==
    /\ ppc = "enrich"
    /\ epc \in {"saved", "failed"}
    /\ reported' = Append(reported, epc = "saved")
    /\ ppc' = IF epc = "saved" THEN "verify" ELSE "exit1"
    /\ UNCHANGED <<skip_rebuild, skip_fx, force_fx, fx_age, requests, response, fx_df>>
    /\ UNCHANGED <<build, dateVars, valueVars, enrichVars, mainVars>>

\* verify_outputs, lines 121-142, run(), lines 169-182, and the exit code of
\* lines 228-229
VerifyOutputs ==
    /\ ppc = "verify"
    /\ ppc' = IF out_json.exists /\ fx_data.exists /\ enriched_out.exists
              THEN "exit0" ELSE "exit1"
    /\ UNCHANGED <<reported, skip_rebuild, skip_fx, force_fx, fx_age, requests, response, fx_df>>
    /\ UNCHANGED <<build, dateVars, valueVars, enrichVars, mainVars>>

\* files an earlier run has left
StaleDataset ==
    << HoldingRecord(<<"A","z","t","e","c","a">>, "Pensiones", CONCEPTS[1], DateOf(2024, 12, "table"), <<"1">>) >>
StaleRates == ProcessData(SeriesUnordered, "ns")
\* the age of an existing rate file: at the limit of the cache window, and past it
FxAges == {CACHE_HOURS, CACHE_HOURS + 1}

PipelineReports ==
    {Missing, Unreadable, SheetFile(SheetTwoConcepts), SheetFile(SheetBadYearHeader)}

InitPipeline ==
    /\ build = "ns"
    /\ files \in [1..NumReports -> PipelineReports]
    /\ pc = "idle" /\ report_idx = 0
    /\ all_dataframes = <<>> /\ file_summary = <<>>
    /\ out_json \in {NoFile, FileOf(StaleDataset)} /\ out_summary = NoFile
    /\ afore_data = NoFile /\ epc = "idle" /\ merged_df = <<>> /\ enriched_out = NoFile
    /\ \/ fx_data = NoFile /\ fx_age = 0
       \/ fx_data = FileOf(StaleRates) /\ fx_age \in FxAges
    /\ ppc = "step1" /\ reported = <<>>
    /\ skip_rebuild \in BOOLEAN /\ skip_fx \in BOOLEAN /\ force_fx \in BOOLEAN
    /\ requests = 0 /\ response = "none" /\ fx_df = <<>>
    /\ DateIdle /\ ValueIdle

Rebuilding == ppc = "rebuild"
Enriching == ppc = "enrich"

NextPipeline ==
    \/ Step1Skip
    \/ Step1Rebuild
    \/ Rebuilding /\ SkipMissingReport
    \/ Rebuilding /\ ProcessReport
    \/ Rebuilding /\ ExtractionRaises
    \/ Rebuilding /\ ReturnNoData
    \/ Rebuilding /\ SaveOutputs
    \/ Rebuilding /\ FinalStatistics
    \/ Step1Return
    \/ Step2Skip
    \/ UseCachedRates
    \/ FetchDataFails
    \/ FetchData
    \/ ProcessDataStep
    \/ ValidateDataFails
    \/ SaveJson
    \/ Step3Enrich
    \/ Enriching /\ LoadData
    \/ Enriching /\ MergeFxData
    \/ Enriching /\ CalculateUsdValues
    \/ Enriching /\ SaveEnrichedData
    \/ Step3Return
    \/ VerifyOutputs

SpecPipeline == InitPipeline /\ [][NextPipeline]_vars

\* C4: a report whose file is missing gets the summary entry (report, Siefore,
\* "File Not Found", 0), adds no frame of records, and the loop goes on with the
\* next report.
C4_MissingReportIsSkipped ==
    /\ [](\A i \in 1..Len(file_summary) :
            files[i].kind = "missing" =>
                /\ file_summary[i].Status = "File Not Found"
                /\ file_summary[i].Records_Extracted = 0
                /\ file_summary[i].Report_Number = 15 + i)
    /\ [][(InLoop /\ files[report_idx].kind = "missing") =>
            /\ Len(file_summary') = Len(file_summary) + 1
            /\ file_summary'[Len(file_summary')].Status = "File Not Found"
            /\ all_dataframes' = all_dataframes
            /\ pc' = "loop"
            /\ report_idx' = report_idx + 1]_vars

\* a missing report was recorded and the report after it was extracted
C4_Witness ==
    \E i \in 1..(Len(file_summary) - 1) :
        /\ files[i].kind = "missing"
        /\ file_summary[i].Status = "File Not Found"
        /\ file_summary[i + 1].Status = "Success"
        /\ file_summary[i + 1].Records_Extracted > 0

\* C5: every summary entry has one of the statuses Success, File Not Found, Read
\* Error; a report whose file could not be read has Read Error and 0 records, and
\* Success is given only to a report whose sheet was read.
C5_ReadFailureHasItsOwnStatus ==
    \A i \in 1..Len(file_summary) :
        /\ file_summary[i].Status \in {"Success", "File Not Found", "Read Error"}
        /\ files[i].kind = "unreadable" =>
              file_summary[i].Status = "Read Error" /\ file_summary[i].Records_Extracted = 0
        /\ file_summary[i].Status = "Success" => files[i].kind = "sheet"

\* C6: an exception raised while extracting a report whose sheet was read does not
\* leave the loop: the run never ends in that exception.
C6_ExtractionErrorsAreContained ==
    pc # "extract_raised"

\* C7: a run that has returned has written a summary with exactly one entry per
\* report, in report order.
C7_SummaryIsAlwaysWritten ==
    pc \in {"returned", "done"} =>
        /\ out_summary.exists
        /\ Len(out_summary.data) = NumReports
        /\ \A i \in 1..Len(out_summary.data) :
              /\ out_summary.data[i].Report_Number = ReportNumber(i)
              /\ out_summary.data[i].Siefore = SIEFORE_MAP[i]

IsTableMonth(s) == \E i \in 1..Len(spanish_months) : spanish_months[i] = s

\* C8: the resolution of a header "<month of the table>-<four characters that are
\* not all digits>" gives a date or the not-a-date value; it does not raise.
C8_BadYearDoesNotRaise ==
    LET p == Split(Strip(col), "-")
    IN  (/\ date # Unresolved
         /\ Len(p) = 2 /\ IsTableMonth(p[1])
         /\ Len(p[2]) = 4 /\ ~AllDigits(p[2]))
        => date.kind \in {"date", "NaT"}

\* C9: a header "<Month>-<YYYY>" with Month in the table and YYYY four digits
\* resolves to the period (YYYY, index of Month); a two-part hyphenated header
\* whose left part is not in the table goes to the generic parse.
C9_TableRuleGivesExactPeriod ==
    LET p == Split(Strip(col), "-")
    IN  date # Unresolved =>
            /\ (/\ Len(p) = 2 /\ IsTableMonth(p[1])
                /\ Len(p[2]) = 4 /\ AllDigits(p[2]))
               => /\ date.kind = "date"
                  /\ date.year = ToNat(p[2])
                  /\ spanish_months[date.month] = p[1]
            /\ (Len(p) = 2 /\ ~IsTableMonth(p[1]))
               => date.via = "generic"

\* C10: a cell that is a placeholder token in any letter case, with any
\* surrounding whitespace, normalizes to the amount 0.
C10_PlaceholderIsZeroInAnyCase ==
    (/\ value_mxn # Unset
     /\ \E t \in Placeholders : Lower(Strip(val)) = Lower(t))
    => value_mxn = Ratio(0, 1)

\* the text the normalizer tests and parses (line 146)
ValStr == Strip(Remove(val, ","))

\* C11: a cell whose text is neither a placeholder nor a decimal number
\* normalizes to the amount 0 (and nothing is raised).
C11_MalformedCellIsZero ==
    (/\ value_mxn # Unset
     /\ ~ \E t \in Placeholders : Lower(ValStr) = Lower(t)
     /\ DecimalValue(ValStr).kind = "error")
    => value_mxn = Ratio(0, 1)

\* C12: a cell whose text, commas and surrounding whitespace removed, is the
\* decimal number n normalizes to exactly n * 1000, whatever the sign of n.
C12_AmountIsExactlyScaled ==
    (value_mxn # Unset /\ DecimalValue(ValStr).kind = "num")
    => value_mxn = Ratio(DecimalValue(ValStr).num * 1000, DecimalValue(ValStr).den)

\* the records of report i, and those of one concept, in the frames collected
ReportRecords(i) ==
    SelectSeq(Flatten(all_dataframes), LAMBDA r : r.Siefore = SIEFORE_MAP[i])
RecordsOfConcept(i, concept) ==
    SelectSeq(ReportRecords(i), LAMBDA r : r.Concept = concept)
Extracted(i) ==
    i <= Len(file_summary) /\ files[i].kind = "sheet" /\ file_summary[i].Status = "Success"
LabelHits(sh, term) ==
    {n \in 1..Len(sh.rows) : Contains(Lower(LabelStr(sh.rows[n].label)), Lower(term))}
\* what the formulas read of the sheets, computed once: the rows matching each
\* concept, the trimmed labels, the outcome of resolving each header
Hits == [sh \in Sheets, k \in 1..Len(CONCEPTS) |-> LabelHits(sh, ConceptSearch(CONCEPTS[k]))]
Entities == [sh \in Sheets |-> [n \in 1..Len(sh.rows) |-> AforeName(sh.rows[n].label)]]
Columns ==
    [sh \in Sheets, b \in Builds |->
        [j \in 1..Len(sh.headers) |-> ResolveDate(sh.headers[j], b)]]
HasDateColumn(sh) ==
    \E j \in 1..Len(sh.headers) : Columns[sh, build][j].kind = "date"
EntityRows(sh, m) ==
    {n \in (m + 1)..(m + NUM_AFORES) : n <= Len(sh.rows) /\ ~SkippedAfore(Entities[sh][n])}

\* C13: the row of a concept is the topmost row whose label (column 1) contains
\* the search term, letter case ignored, also when several rows match: the
\* records of the concept name the entities under that row.  When no label
\* matches, the concept gives no record.
C13_FirstMatchingRowIsUsed ==
    \A i \in 1..NumReports, k \in 1..Len(CONCEPTS) :
        Extracted(i) =>
            LET sh == files[i].sheet
                hits == Hits[sh, k]
                recs == RecordsOfConcept(i, CONCEPTS[k])
            IN  /\ hits = {} => recs = <<>>
                /\ (hits # {} /\ HasDateColumn(sh)) =>
                      \E m \in hits :
                          /\ \A n \in hits : m <= n
                          /\ {recs[x].Afore : x \in 1..Len(recs)}
                                = {Entities[sh][n] : n \in EntityRows(sh, m)}

\* a report was extracted in which two rows match a concept, and a record names
\* an entity that stands between them
C13_Witness ==
    \E i \in 1..NumReports, k \in 1..Len(CONCEPTS) :
        /\ Extracted(i)
        /\ LET sh == files[i].sheet
               hits == Hits[sh, k]
               recs == RecordsOfConcept(i, CONCEPTS[k])
           IN  \E m \in hits, n \in hits, e \in 1..Len(sh.rows), x \in 1..Len(recs) :
                  m < e /\ e < n /\ recs[x].Afore = Entities[sh][e]

ConceptIndex(concept) == CHOOSE k \in 1..Len(CONCEPTS) : CONCEPTS[k] = concept
NotFound(sh, k) == Hits[sh, k] = {}
NoHeaderRaises(sh) ==
    \A j \in 1..Len(sh.headers) : Columns[sh, build][j].kind # "raise"

\* the records of each concept of each sheet, computed once
ConceptFrame ==
    [sh \in Sheets, i \in 1..NumReports, k \in 1..Len(CONCEPTS), b \in Builds |->
        ConceptRecords(sh, SIEFORE_MAP[i], CONCEPTS[k], b)]

\* C14: in a report where a concept is not found, every concept that is found
\* still gives its records, in the order of the concept list; the summary entry
\* of the report is Success with the number of those records; and the missing
\* concept does not end the extraction of the report.
C14_MissingConceptIsSkipped ==
    /\ \A i \in 1..NumReports :
          (Extracted(i) /\ \E k \in 1..Len(CONCEPTS) : NotFound(files[i].sheet, k)) =>
              LET sh == files[i].sheet
                  recs == ReportRecords(i)
              IN  /\ \A k \in 1..Len(CONCEPTS) :
                        RecordsOfConcept(i, CONCEPTS[k])
                            = IF NotFound(sh, k) THEN <<>>
                              ELSE ConceptFrame[sh, i, k, build]
                  /\ \A x \in 1..Len(recs), y \in 1..Len(recs) :
                        x < y => ConceptIndex(recs[x].Concept) <= ConceptIndex(recs[y].Concept)
                  /\ file_summary[i].Status = "Success"
                  /\ file_summary[i].Records_Extracted = Len(recs)
    /\ (/\ pc = "extract_raised"
        /\ \E k \in 1..Len(CONCEPTS) : NotFound(files[report_idx].sheet, k))
       => \/ files[report_idx].sheet.ncols < 2
          \/ ~NoHeaderRaises(files[report_idx].sheet)

\* a report was extracted in which a concept is not found and a later concept
\* of the list gave records
C14_Witness ==
    \E i \in 1..NumReports, k \in 1..Len(CONCEPTS), n \in 1..Len(CONCEPTS) :
        /\ Extracted(i) /\ k < n
        /\ NotFound(files[i].sheet, k)
        /\ RecordsOfConcept(i, CONCEPTS[n]) # <<>>
        /\ file_summary[i].Records_Extracted > 0

Rank(S, n) == Cardinality({x \in S : x <= n})
DateColumns(sh) == {j \in 1..Len(sh.headers) : Columns[sh, build][j].kind = "date"}

\* C15: the records of a concept found at row m are, row after row and column
\* after column, one for each pair of a row among m+1 .. m+10 of the sheet whose
\* trimmed label is neither empty nor "nan" and a column from FIRST_VALUE_COL on
\* whose header resolves to a date; each carries the trimmed label and the period
\* of the header.  Rows with a blank label and columns whose header is no date
\* give none.
C15_OneRecordPerEntityAndPeriod ==
    \A i \in 1..NumReports, k \in 1..Len(CONCEPTS) :
        (Extracted(i) /\ ~NotFound(files[i].sheet, k)) =>
            LET sh == files[i].sheet
                m == SetMin(Hits[sh, k])
                rows == EntityRows(sh, m)
                cols == DateColumns(sh)
                recs == RecordsOfConcept(i, CONCEPTS[k])
            IN  /\ Len(recs) = Cardinality(rows) * Cardinality(cols)
                /\ \A n \in rows, j \in cols :
                      LET rec == recs[(Rank(rows, n) - 1) * Cardinality(cols) + Rank(cols, j)]
                      IN  /\ rec.Afore = Entities[sh][n]
                          /\ rec.PeriodYear = NatToStr(Columns[sh, build][j].year)
                          /\ rec.PeriodMonth = ZFill2(Columns[sh, build][j].month)

\* a report was extracted in which a concept has more than ten rows under it,
\* one of them with a null marker as label, and gave nine records, and another
\* concept has three entities under one date column and one column that is no
\* date, and gave three records with trimmed labels
C15_Witness ==
    \E i \in 1..NumReports, k \in 1..Len(CONCEPTS), n \in 1..Len(CONCEPTS) :
        /\ Extracted(i)
        /\ ~NotFound(files[i].sheet, k) /\ ~NotFound(files[i].sheet, n)
        /\ LET sh == files[i].sheet
               long == RecordsOfConcept(i, CONCEPTS[k])
               short == RecordsOfConcept(i, CONCEPTS[n])
           IN  /\ Len(sh.headers) = 2 /\ Cardinality(DateColumns(sh)) = 1
               /\ Len(sh.rows) > SetMin(Hits[sh, k]) + NUM_AFORES
               /\ Len(long) = 9
               /\ Len(sh.rows) = SetMin(Hits[sh, n]) + 3
               /\ Len(short) = 3
               /\ short[1].Afore = <<"A","z","t","e","c","a">> /\ short[2].Afore = <<"C","o","p","p","e","l">>

\* C16: the stages run in the order rebuild, fetch rates, enrich; a stage is
\* entered only when every stage before it has reported success, so nothing of a
\* later stage happens after a failure; the run ends with exit code 0 only when
\* the three stages reported success and the three output files exist, and with
\* a nonzero exit code as soon as a stage reports failure.
C16_StagesRunInOrderUntilFailure ==
    /\ Len(reported) <= 3
    /\ pc # "idle" => ppc # "step1"
    /\ (requests > 0 \/ ppc \in {"step2", "fetched", "processed"})
          => (Len(reported) >= 1 /\ reported[1])
    /\ (epc # "idle" \/ ppc \in {"step3", "enrich"})
          => (Len(reported) >= 2 /\ reported[1] /\ reported[2])
    /\ \A i \in 1..Len(reported) :
          ~reported[i] =>
              /\ i = Len(reported) /\ ppc = "exit1"
              /\ i = 1 => (requests = 0 /\ epc = "idle")
              /\ i = 2 => epc = "idle"
    /\ ppc \in {"verify", "exit0"} => reported = <<TRUE, TRUE, TRUE>>
    /\ ppc = "exit0" => (out_json.exists /\ fx_data.exists /\ enriched_out.exists)

\* a run in which the three stages did their work ended with exit code 0
C16_Witness ==
    /\ ppc = "exit0" /\ reported = <<TRUE, TRUE, TRUE>>
    /\ pc = "done" /\ requests = 1 /\ epc = "saved"
    /\ out_json.exists /\ fx_data.exists /\ enriched_out.exists

\* the answers that are a timeout, a transport failure or an HTTP error status
TransportFailures == {"timeout", "connection_error", "http_401", "http_500"}

\* C17: a run of the rate fetch sends at most one request.  When the request
\* ends in a timeout, a transport failure or an HTTP error, no file is written,
\* the second stage reports failure and the enrichment is not entered.
C17_FetchFailureIsNotRetried ==
    /\ [](/\ requests <= 1
          /\ response \in TransportFailures =>
                /\ reported = <<TRUE, FALSE>> /\ ppc = "exit1"
                /\ epc = "idle" /\ ~enriched_out.exists)
    /\ [][response' \in TransportFailures =>
            /\ requests' = 1
            /\ fx_data' = fx_data /\ fx_age' = fx_age
            /\ enriched_out' = enriched_out /\ out_json' = out_json]_vars

\* the request for a refresh of an old rate file timed out: the old file is
\* still there, the run has ended with a failure of the second stage
C17_Witness ==
    /\ response = "timeout" /\ requests = 1
    /\ fx_data = FileOf(StaleRates) /\ fx_age > CACHE_HOURS
    /\ reported = <<TRUE, FALSE>> /\ ppc = "exit1" /\ epc = "idle"

CanonicalPeriod(r) ==
    /\ AllDigits(r.PeriodYear) /\ NatToStr(ToNat(r.PeriodYear)) = r.PeriodYear
    /\ Len(r.PeriodMonth) = 2 /\ AllDigits(r.PeriodMonth)
    /\ ToNat(r.PeriodMonth) \in 1..12
SameYearAndMonth(a, b) ==
    /\ ToNat(a.PeriodYear) = ToNat(b.PeriodYear)
    /\ ToNat(a.PeriodMonth) = ToNat(b.PeriodMonth)
Joined == epc \in {"merged", "calculated", "saved"}

\* C18: the holdings the extractor emits and the rates the rate processor emits
\* carry the year as its decimal text and the month as two digits "01".."12";
\* so a holding and a rate are of the same year and month exactly when their two
\* key fields are equal as strings, and the join gives a holding the rate of
\* the equal period and no rate when there is none.
C18_PeriodsAreEncodedAlike ==
    /\ \A i \in 1..Len(all_dataframes) : \A x \in 1..Len(all_dataframes[i]) :
          CanonicalPeriod(all_dataframes[i][x])
    /\ \A x \in 1..Len(out_json.data) : CanonicalPeriod(out_json.data[x])
    /\ ppc # "fetched" => \A x \in 1..Len(fx_df) : CanonicalPeriod(fx_df[x])
    /\ \A x \in 1..Len(fx_data.data) : CanonicalPeriod(fx_data.data[x])
    /\ \A x \in 1..Len(out_json.data), y \in 1..Len(fx_data.data) :
          SameYearAndMonth(out_json.data[x], fx_data.data[y])
              <=> SamePeriod(out_json.data[x], fx_data.data[y])
    /\ Joined =>
          /\ Len(merged_df) = Len(afore_data.data)
          /\ \A x \in 1..Len(merged_df) :
                /\ SamePeriod(merged_df[x], afore_data.data[x])
                /\ \A y \in 1..Len(fx_data.data) :
                      SameYearAndMonth(merged_df[x], fx_data.data[y])
                          => merged_df[x].FX_EOM = fx_data.data[y].FX_EOM
                /\ (\A y \in 1..Len(fx_data.data) :
                        ~SameYearAndMonth(merged_df[x], fx_data.data[y]))
                      => merged_df[x].FX_EOM = Null

\* holdings extracted in this run were joined with rates processed in this run:
\* one holding got the rate of its month, and there is a rate of another month
C18_Witness ==
    /\ Joined /\ pc = "done" /\ requests = 1 /\ response = "ok"
    /\ \E x \in 1..Len(merged_df), y \in 1..Len(fx_data.data), z \in 1..Len(fx_data.data) :
          /\ SamePeriod(merged_df[x], fx_data.data[y])
          /\ merged_df[x].FX_EOM = fx_data.data[y].FX_EOM
          /\ ~SamePeriod(merged_df[x], fx_data.data[z])

\* C19: a header the generic parse resolves, whose first two numeric fields are
\* both at most 12, is read day first: the month of its period is the second
\* field.
C19_AmbiguousDateIsDayFirst ==
    LET p == Split(Strip(col), "/")
    IN  (/\ date.kind = "date" /\ date.via = "generic"
         /\ Len(p) = 3 /\ AllDigits(p[1]) /\ AllDigits(p[2]) /\ AllDigits(p[3])
         /\ ToNat(p[1]) \in 1..12 /\ ToNat(p[2]) \in 1..12)
        => date.month = ToNat(p[2])

MainTerminated == pc \in {"done", "stats_raised", "returned", "extract_raised"}
Dataset == Flatten(all_dataframes)
Successes == SelectSeq(file_summary, LAMBDA e : e.Status = "Success")
CountOfSiefore(s) == Cardinality({k \in 1..Len(Dataset) : Dataset[k].Siefore = s})
RECURSIVE SumOfCounts(_)
SumOfCounts(es) == IF es = <<>> THEN 0 ELSE Head(es).Records_Extracted + SumOfCounts(Tail(es))

\* C20: when main() has ended, every record of the accumulated dataset carries the
\* Siefore name of the report it was extracted from and one of the four labels of
\* CONCEPTS; the count of every summary entry is the number of dataset records
\* with that entry's Siefore name, and the counts add up to the size of the dataset.
C20_DatasetAgreesWithSummary ==
    MainTerminated =>
        /\ Len(Successes) = Len(all_dataframes)
        /\ \A k \in 1..Len(all_dataframes) : \A j \in 1..Len(all_dataframes[k]) :
              /\ all_dataframes[k][j].Siefore = Successes[k].Siefore
              /\ \E c \in 1..Len(CONCEPTS) : all_dataframes[k][j].Concept = CONCEPTS[c]
        /\ \A k \in 1..Len(file_summary) :
              /\ file_summary[k].Siefore = SIEFORE_MAP[k]
              /\ file_summary[k].Records_Extracted = CountOfSiefore(file_summary[k].Siefore)
        /\ pc # "extract_raised" => Len(file_summary) = NumReports
        /\ SumOfCounts(file_summary) = Len(Dataset)

\* a finished run with a missing report, two reports of different sizes, and a
\* record of the concept that is searched by a shortened term
C20_Witness ==
    /\ pc = "done"
    /\ \E k \in 1..Len(file_summary) : file_summary[k].Status = "File Not Found"
    /\ \E k, l \in 1..Len(file_summary) :
          /\ file_summary[k].Records_Extracted > 0
          /\ file_summary[l].Records_Extracted > file_summary[k].Records_Extracted
    /\ \E k \in 1..Len(Dataset) : Dataset[k].Concept = CONCEPTS[3]

\* the cells a report gives a record for: concept k of the list, row n of the
\* block under the concept's row, column j of the value columns
Discovery ==
    [sh \in Sheets, b \in Builds |->
        {t \in (1..Len(CONCEPTS)) \X (1..Len(sh.rows)) \X (1..Len(sh.headers)) :
            /\ Hits[sh, t[1]] # {}
            /\ t[2] \in EntityRows(sh, SetMin(Hits[sh, t[1]]))
            /\ Columns[sh, b][t[3]].kind = "date"}]
Discovered(i) == IF Extracted(i) THEN Discovery[files[i].sheet, build] ELSE {}
NotAfter(t, u) ==
    \/ t[1] < u[1]
    \/ t[1] = u[1] /\ t[2] < u[2]
    \/ t[1] = u[1] /\ t[2] = u[2] /\ t[3] <= u[3]
RECURSIVE DiscoveredUpTo(_)
DiscoveredUpTo(i) == IF i = 0 THEN 0 ELSE DiscoveredUpTo(i - 1) + Cardinality(Discovered(i))
Position(i, t) ==
    DiscoveredUpTo(i - 1) + Cardinality({u \in Discovered(i) : NotAfter(u, t)})

\* C21: the accumulated dataset lists the records in discovery order: by report
\* in ascending report number, then by concept in the order of CONCEPTS, then by
\* row from top to bottom, then by column from left to right; the dataset
\* written is that sequence.
C21_RecordsInDiscoveryOrder ==
    /\ Len(Dataset) = DiscoveredUpTo(NumReports)
    /\ \A i \in 1..NumReports : \A t \in Discovered(i) :
          LET rec == Dataset[Position(i, t)]
              sh == files[i].sheet
          IN  /\ rec.Siefore = SIEFORE_MAP[i]
              /\ rec.Concept = CONCEPTS[t[1]]
              /\ rec.Afore = Entities[sh][t[2]]
              /\ rec.PeriodYear = NatToStr(Columns[sh, build][t[3]].year)
              /\ rec.PeriodMonth = ZFill2(Columns[sh, build][t[3]].month)
    /\ pc \in {"saved", "done", "stats_raised"} => out_json.data = Dataset

\* a finished run with records of two reports, in one of which a later month
\* stands left of an earlier one and a concept later in the list stands above
\* an earlier one, with records of both
C21_Witness ==
    /\ pc = "done"
    /\ \E i, l \in 1..NumReports :
          /\ i # l /\ Discovered(l) # {}
          /\ \E t, u \in Discovered(i) :
                LET sh == files[i].sheet
                IN  /\ t[1] < u[1] /\ SetMin(Hits[sh, t[1]]) > SetMin(Hits[sh, u[1]])
                    /\ \E v \in Discovered(i) :
                          /\ v[1] = t[1] /\ v[2] = t[2] /\ t[3] < v[3]
                          /\ Columns[sh, build][t[3]].month > Columns[sh, build][v[3]].month

\* the position of report i among the reports taken, and the report taken k-th
EntryOf(i) == file_summary[CHOOSE k \in 1..Len(file_summary) : file_summary[k].Report_Number = ReportNumber(i)]
TakenAt(k) == file_summary[k].Report_Number - FirstReport + 1
\* what report i gives by itself: extract_siefore_data on its own file under its
\* own Siefore name
OwnFrame(i) ==
    IF files[i].kind = "missing" THEN <<>> ELSE Extraction[files[i], i, build].frame
OwnEntry(i) ==
    IF files[i].kind = "missing" THEN NotFoundEntry(i) ELSE SuccessEntry(i, Len(OwnFrame(i)))

C23_SuccessNeedsFreshOrSkippedDataset ==
    /\ ppc = "exit0" => (pc = "done" \/ (skip_rebuild /\ pc = "idle"))
    /\ pc = "returned" => ~afore_data.exists

\* when the second stage fetches, on the flags and the rate file it finds
FetchIsDue ==
    \/ force_fx
    \/ ~fx_data.exists
    \/ ~skip_fx /\ fx_age > CACHE_HOURS

\* C24: the second stage sends a request exactly when force_fx is set, or there
\* is no rate file, or skip_fx is not set and the rate file is older than the
\* cache window of 24 hours; a step of the stage that sends none leaves the rate
\* file as it is and reports success; and no other stage sends a request.
C24_FetchOnlyWhenDue ==
    [][/\ ppc = "step2" =>
            /\ requests' > requests <=> FetchIsDue
            /\ requests' = requests =>
                  /\ fx_data' = fx_data /\ fx_age' = fx_age
                  /\ reported' = Append(reported, TRUE)
                  /\ ppc' = "step3"
       /\ requests' # requests => ppc = "step2"]_vars

\* the rate file is exactly as old as the cache window and skip_fx is not set:
\* no request was sent, the stage reported success and the file is the old one
C24_Witness ==
    /\ ppc = "step3" /\ reported = <<TRUE, TRUE>>
    /\ requests = 0 /\ ~skip_fx /\ ~force_fx
    /\ fx_data = FileOf(StaleRates) /\ fx_age = CACHE_HOURS

\* a frame of monthly rates with no null rate, every rate between 1 and 30, and
\* no period twice
RateRec(y, m, fx) == [PeriodYear |-> NatToStr(y), PeriodMonth |-> ZFill2(m), FX_EOM |-> fx]
RatesInRange(df) ==
    \A i \in 1..Len(df) :
        /\ df[i].FX_EOM.kind = "num"
        /\ df[i].FX_EOM.den <= df[i].FX_EOM.num
        /\ df[i].FX_EOM.num <= 30 * df[i].FX_EOM.den
FrameNullRate == << RateRec(2025, 1, Ratio(17, 1)), RateRec(2025, 2, NaN) >>
FrameBelowRange == << RateRec(2025, 1, Ratio(17, 1)), RateRec(2025, 2, Ratio(1, 2)) >>
FrameAboveRange == << RateRec(2025, 1, Ratio(61, 2)), RateRec(2025, 2, Ratio(17, 1)) >>
FrameDuplicatePeriod == << RateRec(2025, 1, Ratio(17, 1)), RateRec(2025, 2, Ratio(18, 1)), RateRec(2025, 1, Ratio(17, 1)) >>
FrameAtLimits == << RateRec(2025, 1, Ratio(1, 1)), RateRec(2025, 2, Ratio(30, 1)) >>

\* lines 112-123 on every observation of every series, computed once
Observations ==
    [raw \in Series, b \in Builds |-> [i \in 1..Len(raw) |-> RateRow(raw[i], b)]]

\* the frame eom holds, for every month with a valid observation in raw, the
\* valid observation of the latest date, and nothing else
LatestValidPerMonth(raw, eom) ==
    LET obs == Observations[raw, build]
    IN  /\ UniquePeriods(eom)
        /\ \A i \in 1..Len(raw) :
              obs[i].ok => \E k \in 1..Len(eom) :
                  eom[k].PeriodYear = obs[i].PeriodYear /\ eom[k].PeriodMonth = obs[i].PeriodMonth
        /\ \A k \in 1..Len(eom) : \E i \in 1..Len(raw) :
              /\ obs[i].ok
              /\ eom[k] = [PeriodYear |-> obs[i].PeriodYear, PeriodMonth |-> obs[i].PeriodMonth,
                           FX_EOM |-> obs[i].FX_EOM]
              /\ \A j \in 1..Len(raw) :
                    (obs[j].ok /\ obs[j].year = obs[i].year /\ obs[j].month = obs[i].month)
                        => obs[j].day <= obs[i].day

\* C25: the rate file is written only from a processed series that passed the
\* validation.  Processing keeps one record per year and month, the valid
\* observation of the latest date; validation rejects a null rate, a rate below
\* 1 or above 30, and a period that occurs twice; when the fetch or the
\* validation fails the stage reports failure and the rate file is as it was.
\* Every rate file has at most one record per period.
C25_RateFileOnlyAfterValidation ==
    [][/\ fx_data.exists => (UniquePeriods(fx_data.data) /\ RatesInRange(fx_data.data))
       /\ fx_data'.exists => (UniquePeriods(fx_data'.data) /\ RatesInRange(fx_data'.data))
       /\ ~ValidateData(FrameNullRate) /\ ~ValidateData(FrameBelowRange)
       /\ ~ValidateData(FrameAboveRange) /\ ~ValidateData(FrameDuplicatePeriod)
       /\ ValidateData(FrameAtLimits)
       /\ ppc = "fetched" => LatestValidPerMonth(fx_df, fx_df')
       /\ fx_data' # fx_data =>
             /\ ppc = "processed" /\ fx_data' = FileOf(fx_df)
             /\ UniquePeriods(fx_df) /\ RatesInRange(fx_df)
       /\ (ppc = "processed" /\ ~(UniquePeriods(fx_df) /\ RatesInRange(fx_df)))
             => ppc' = "exit1"
       /\ (ppc \in {"step2", "fetched", "processed"} /\ ppc' = "exit1") =>
             /\ fx_data' = fx_data /\ fx_age' = fx_age
             /\ reported' = Append(reported, FALSE)]_vars

\* after a forced fetch the rate file holds the two months of a series with two
\* observations in one month, the later one kept
C25_Witness ==
    /\ requests = 1 /\ response = "ok" /\ force_fx
    /\ ppc = "step3" /\ reported = <<TRUE, TRUE>>
    /\ fx_data = FileOf(<< RateRec(2025, 1, Ratio(41, 2)), RateRec(2025, 2, Ratio(17, 1)) >>)

====
